---- MODULE Spec2Model ----
(***************************************************************************)
(* Model of src/app.py: the request handler get_event_predictions and the  *)
(* FTCStatsCalculator methods it calls (calculate_opr, calculate_rp_simple,*)
(* calculate_leaderboard).                                                 *)
(*                                                                         *)
(* Units.  Python floats are modelled by exact integers and ratios:        *)
(*   - an OPR is a whole number of points;                                 *)
(*   - an upstream bonus average (a probability in [0, 1]) is a whole      *)
(*     number of thousandths, so  p * 100  is  p / 10  percent;            *)
(*   - a win credit (1, 0.5, 0) is counted in half wins (2, 1, 0);         *)
(*   - avg_rp (two decimals) is in hundredths, win_rate and                *)
(*     confidence_percentage (one decimal) are in tenths;                  *)
(*   - the local `confidence` is the ratio num / den.                      *)
(* Python's round() is round-half-to-even (RoundHalfEven).                 *)
(***************************************************************************)
EXTENDS Integers, Sequences, FiniteSets, TLC

VARIABLES
    use_highest_season_opr, \* request.args.get('opr_source', 'current') == 'highest'
    team_events,        \* teams/{team}/events/{season}, per team: the upstream event list
    highest_opr_info,   \* calculate_opr(...)[1]
    matches,            \* get_event_matches(event_code): the upstream match list
    stats,              \* get_team_event_stats(team, event_code), per team
    pc,                 \* position of the handler
    opr_data,           \* calculate_opr(...)[0]
    rp_data,            \* calculate_rp_simple(...)
    teams,              \* the dict `teams` of calculate_leaderboard
    i,                  \* index of the match the running loop looks at next
    lbStep,             \* locals of the last iteration of the leaderboard loop
    leaderboard_result, \* the dict calculate_leaderboard returns
    predictions,        \* list `predictions` of get_event_predictions
    past_matches,       \* list `past_matches` of get_event_predictions
    predStep,           \* locals of the last iteration of the predictions loop
    response            \* what the handler answers

vars == <<use_highest_season_opr, team_events, highest_opr_info, matches, stats, pc, opr_data, rp_data, teams, i, lbStep,
          leaderboard_result, predictions, past_matches, predStep, response>>

----------------------------------------------------------------------------
(* Bounds of the model *)

\* longest match list of an event
MaxMatches == 2
\* largest totalPoints of an alliance
MaxScore == 1

\* longest season event list of a team
MaxEvents == 2

----------------------------------------------------------------------------
(* Arithmetic helpers *)

Abs(x) == IF x < 0 THEN -x ELSE x

Min2(a, b) == IF a < b THEN a ELSE b

Max2(a, b) == IF a > b THEN a ELSE b

\* round(n / d) for d > 0: nearest integer, a half goes to the even neighbour
RoundHalfEven(n, d) ==
    LET q == n \div d
        r == n % d
    IN  IF 2 * r < d THEN q
        ELSE IF 2 * r > d THEN q + 1
        ELSE IF q % 2 = 0 THEN q ELSE q + 1

RECURSIVE SumSeq(_)
SumSeq(s) == IF s = <<>> THEN 0 ELSE Head(s) + SumSeq(Tail(s))

\* True as 1, False as 0 (Python adds booleans as integers)
B2N(b) == IF b THEN 1 ELSE 0

----------------------------------------------------------------------------
(* Upstream records *)

\* one alliance's entry of match['scores']; present = the entry is truthy
AllianceScore(p, tp, mv, gl, pt) ==
    [present |-> p, totalPoints |-> tp, movementBonus |-> mv,
     goalBonus |-> gl, patternBonus |-> pt]

NoAllianceScore == AllianceScore(FALSE, 0, FALSE, FALSE, FALSE)

\* match['scores']; given = match.get('scores') is truthy
Scores(g, r, b) == [given |-> g, red |-> r, blue |-> b]

NoScores == Scores(FALSE, NoAllianceScore, NoAllianceScore)

\* match['id']: an int, or a str that int() parses (numeric) or does not
IntId(n) == [isStr |-> FALSE, numeric |-> TRUE, num |-> n]

StrId(n) == [isStr |-> TRUE, numeric |-> TRUE, num |-> n]

TextId == [isStr |-> TRUE, numeric |-> FALSE, num |-> 0]

TeamEntry(t, a) == [teamNumber |-> t, alliance |-> a]

Match(id, tms, sc) == [id |-> id, teams |-> tms, scores |-> sc]

\* the stats dict of one team at the event; has_opr = 'opr' in stats,
\* has_avg = 'avg' in stats (or the flat layout the else branch reads)
TeamStats(ho, o, ha, mv, gl, pt) ==
    [has_opr |-> ho, totalPointsNp |-> o, has_avg |-> ha,
     movementRp |-> mv, goalRp |-> gl, patternRp |-> pt]

NoStats == TeamStats(FALSE, 0, FALSE, 0, 0, 0)

----------------------------------------------------------------------------
(* Shared reads of a match *)

\* [str(t['teamNumber']) for t in match.get('teams', []) if t.get('alliance') == a]
\* (str() is injective on team numbers; a team is identified by its number)
AllianceTeams(match, a) ==
    LET of_alliance == SelectSeq(match.teams, LAMBDA t : t.alliance = a)
    IN  [k \in 1..Len(of_alliance) |-> of_alliance[k].teamNumber]

\* the set `teams` that calculate_opr and calculate_rp_simple collect
EventTeams(ms) ==
    UNION {{ms[k].teams[n].teamNumber : n \in 1..Len(ms[k].teams)} : k \in DOMAIN ms}

\* isinstance(match_id, str) and int(match_id) > 10000: the loops `continue`
IsNonQual(match) ==
    match.id.isStr /\ match.id.numeric /\ match.id.num > 10000

\* match.get('scores') and match['scores'].get('red') and match['scores'].get('blue')
IsPlayed(match) ==
    match.scores.given /\ match.scores.red.present /\ match.scores.blue.present

\* 'red' if red_score > blue_score else 'blue' if blue_score > red_score else 'tie'
ActualWinner(red_score, blue_score) ==
    IF red_score > blue_score THEN "red"
    ELSE IF blue_score > red_score THEN "blue" ELSE "tie"

\* opr_data.get(team, 0)
OprGet(opr, team) == IF team \in DOMAIN opr THEN opr[team] ELSE 0

\* sum(opr_data.get(team, 0) for team in team_list)
OprSum(opr, team_list) == SumSeq([k \in 1..Len(team_list) |-> OprGet(opr, team_list[k])])

\* movementBonus, goalBonus, patternBonus: +1 RP each
BonusRp(sc) == B2N(sc.movementBonus) + B2N(sc.goalBonus) + B2N(sc.patternBonus)

----------------------------------------------------------------------------
(* calculate_opr (current-event OPR) and calculate_rp_simple *)

\* entries only for the teams of played matches
CalculateOprPlayedOnly(ms, st) ==
    [t \in EventTeams(SelectSeq(ms, IsPlayed)) |->
        IF st[t].has_opr THEN st[t].totalPointsNp ELSE 0]

CalculateOpr(ms, st) ==
    [t \in EventTeams(ms) |->
        IF st[t].has_opr THEN st[t].totalPointsNp ELSE 0]

\* one record of the answer of teams/{team}/events/{season}
SeasonEvent(code, st) == [eventCode |-> code, stats |-> st]

\* get_team_event_stats: the stats of the first record of the event, {} without one
RECURSIVE GetTeamEventStats(_, _)
GetTeamEventStats(events_list, event_code) ==
    IF events_list = <<>> THEN NoStats
    ELSE IF Head(events_list).eventCode = event_code THEN Head(events_list).stats
    ELSE GetTeamEventStats(Tail(events_list), event_code)

\* get_team_season_stats: `for event in events_list`, carrying highest_opr and
\* highest_event
RECURSIVE SeasonLoop(_, _, _)
SeasonLoop(events_list, highest_opr, highest_event) ==
    IF events_list = <<>>
    THEN [highest_opr |-> highest_opr, event_achieved |-> highest_event]
    ELSE LET event == Head(events_list)
             total_opr == event.stats.totalPointsNp
         IN  IF event.stats.has_opr /\ total_opr > highest_opr
             THEN SeasonLoop(Tail(events_list), total_opr, event.eventCode)
             ELSE SeasonLoop(Tail(events_list), highest_opr, highest_event)

\* get_team_season_stats returned None
NoSeasonStats ==
    [found |-> FALSE, highest_opr |-> 0, event_achieved |-> "None", total_events |-> 0]

\* get_team_season_stats: highest_opr = 0 and highest_event = None before the loop
GetTeamSeasonStats(events_list) ==
    IF events_list = <<>> THEN NoSeasonStats
    ELSE LET best == SeasonLoop(events_list, 0, "None")
         IN  [found |-> TRUE, highest_opr |-> best.highest_opr,
              event_achieved |-> best.event_achieved,
              total_events |-> Len(events_list)]

\* calculate_opr with use_highest_season_opr: opr_data
CalculateOprHighest(ms, evs) ==
    [t \in EventTeams(ms) |->
        LET season_stats == GetTeamSeasonStats(evs[t])
        IN  IF season_stats.found THEN season_stats.highest_opr ELSE 0]

\* calculate_opr with use_highest_season_opr: highest_opr_info
HighestOprInfo(ms, evs) ==
    [t \in EventTeams(ms) |->
        LET season_stats == GetTeamSeasonStats(evs[t])
        IN  IF season_stats.found
            THEN [opr |-> season_stats.highest_opr,
                  event_achieved |-> season_stats.event_achieved]
            ELSE [opr |-> 0, event_achieved |-> "N/A"]]

\* the per-team dict of calculate_rp_simple; x_avg = x * 100 is x thousandths / 10
RpEntry(s) ==
    IF s.has_avg
    THEN [movement_rp   |-> s.movementRp > 500,
          movement_avg  |-> RoundHalfEven(s.movementRp, 10),
          goal_rp       |-> s.goalRp > 500,
          goal_avg      |-> RoundHalfEven(s.goalRp, 10),
          pattern_rp    |-> s.patternRp > 500,
          pattern_avg   |-> RoundHalfEven(s.patternRp, 10),
          movement_prob |-> RoundHalfEven(s.movementRp, 10),
          goal_prob     |-> RoundHalfEven(s.goalRp, 10),
          pattern_prob  |-> RoundHalfEven(s.patternRp, 10)]
    ELSE [movement_rp   |-> FALSE, movement_avg  |-> 0,
          goal_rp       |-> FALSE, goal_avg      |-> 0,
          pattern_rp    |-> FALSE, pattern_avg   |-> 0,
          movement_prob |-> 0, goal_prob |-> 0, pattern_prob |-> 0]

CalculateRpSimple(ms, st) == [t \in EventTeams(ms) |-> RpEntry(st[t])]

\* rp_data.get(team, {}) followed by .get(field, 0) on each field read
RpGet(rp, team) == IF team \in DOMAIN rp THEN rp[team] ELSE RpEntry(NoStats)

----------------------------------------------------------------------------
(* calculate_leaderboard: one iteration of `for match in matches` *)

InitTeam(team) ==
    [team_number |-> team, total_rp |-> 0, total_wins |-> 0,
     total_matches |-> 0, scores |-> <<>>, is_predicted |-> FALSE]

\* predicted_winner of the PREDICTED branch
LbPredictedWinner(red_opr, blue_opr) ==
    IF red_opr > blue_opr THEN "red"
    ELSE IF blue_opr < red_opr THEN "blue" ELSE "tie"

\* 1 if (a + b) / 200 > 0.5 else 0
BonusPredicted(a, b) == IF (a + b) * 2 > 200 THEN 1 ELSE 0

NoAllianceRps ==
    [movement |-> 0, goal |-> 0, pattern |-> 0, total |-> 0, win |-> 0,
     movement_prob |-> 0, goal_prob |-> 0, pattern_prob |-> 0]

\* the nested function calculate_alliance_rps ('win' is set by the caller)
CalculateAllianceRps(rp, teams_list) ==
    IF Len(teams_list) # 2 THEN NoAllianceRps
    ELSE LET team1_rp == RpGet(rp, teams_list[1])
             team2_rp == RpGet(rp, teams_list[2])
             movement_rp == BonusPredicted(team1_rp.movement_prob, team2_rp.movement_prob)
             goal_rp == BonusPredicted(team1_rp.goal_prob, team2_rp.goal_prob)
             pattern_rp == BonusPredicted(team1_rp.pattern_prob, team2_rp.pattern_prob)
         IN  [movement |-> movement_rp, goal |-> goal_rp, pattern |-> pattern_rp,
              total |-> movement_rp + goal_rp + pattern_rp, win |-> 0,
              movement_prob |->
                  RoundHalfEven((team1_rp.movement_prob + team2_rp.movement_prob) * 100, 200),
              goal_prob |->
                  RoundHalfEven((team1_rp.goal_prob + team2_rp.goal_prob) * 100, 200),
              pattern_prob |->
                  RoundHalfEven((team1_rp.pattern_prob + team2_rp.pattern_prob) * 100, 200)]

\* a win worth 2 ranking points instead of 3
WinRpTwoForWin(winner, side) == IF winner = side THEN 2 ELSE IF winner = "tie" THEN 1 ELSE 0

\* win/tie RP of one side: +3 and a win for the winner, +1 and half a win on a tie
WinRp(winner, side) == IF winner = side THEN 3 ELSE IF winner = "tie" THEN 1 ELSE 0

WinCredit(winner, side) == IF winner = side THEN 2 ELSE IF winner = "tie" THEN 1 ELSE 0

\* for team in team_list: if team in teams: teams[team][...] += ...
RECURSIVE Credit(_, _, _, _, _)
Credit(tms, team_list, rp, win, predicted) ==
    IF team_list = <<>> THEN tms
    ELSE LET team == Head(team_list)
             upd == IF team \in DOMAIN tms
                    THEN [tms EXCEPT ![team] =
                            [@ EXCEPT !.total_rp = @ + rp,
                                      !.total_wins = @ + win,
                                      !.total_matches = @ + 1,
                                      !.scores = Append(@, rp),
                                      !.is_predicted = IF predicted THEN TRUE ELSE @]]
                    ELSE tms
         IN  Credit(upd, Tail(team_list), rp, win, predicted)

\* the skip only when both alliances have the wrong number of teams
IsMalformedBoth(red_teams, blue_teams) == Len(red_teams) # 2 /\ Len(blue_teams) # 2

\* if len(red_teams) != 2 or len(blue_teams) != 2: continue
IsMalformed(red_teams, blue_teams) == Len(red_teams) # 2 \/ Len(blue_teams) # 2

NoLbStep ==
    [branch |-> "none", red_teams |-> <<>>, blue_teams |-> <<>>, winner |-> "none",
     red_rp_total |-> 0, blue_rp_total |-> 0, red_win |-> 0, blue_win |-> 0,
     red_opr |-> 0, blue_opr |-> 0,
     red_rps |-> NoAllianceRps, blue_rps |-> NoAllianceRps]

\* the locals one iteration leaves behind, by the branch it takes
LbLocals(match, opr, rp) ==
    LET red_teams == AllianceTeams(match, "Red")
        blue_teams == AllianceTeams(match, "Blue")
        here == [NoLbStep EXCEPT !.red_teams = red_teams, !.blue_teams = blue_teams]
    IN  IF IsNonQual(match) THEN [NoLbStep EXCEPT !.branch = "nonqual"]
        ELSE IF IsMalformed(red_teams, blue_teams)
        THEN [here EXCEPT !.branch = "malformed"]
        ELSE IF IsPlayed(match)
        THEN LET actual_winner ==
                     ActualWinner(match.scores.red.totalPoints, match.scores.blue.totalPoints)
             IN  [here EXCEPT
                    !.branch = "actual",
                    !.winner = actual_winner,
                    !.red_rp_total = BonusRp(match.scores.red) + WinRp(actual_winner, "red"),
                    !.blue_rp_total = BonusRp(match.scores.blue) + WinRp(actual_winner, "blue"),
                    !.red_win = WinCredit(actual_winner, "red"),
                    !.blue_win = WinCredit(actual_winner, "blue")]
        ELSE LET red_opr == OprSum(opr, red_teams)
                 blue_opr == OprSum(opr, blue_teams)
                 predicted_winner == LbPredictedWinner(red_opr, blue_opr)
                 red_rps == CalculateAllianceRps(rp, red_teams)
                 blue_rps == CalculateAllianceRps(rp, blue_teams)
             IN  [here EXCEPT
                    !.branch = "predicted",
                    !.winner = predicted_winner,
                    !.red_opr = red_opr,
                    !.blue_opr = blue_opr,
                    !.red_rps = [red_rps EXCEPT
                                    !.total = @ + WinRp(predicted_winner, "red"),
                                    !.win = WinCredit(predicted_winner, "red")],
                    !.blue_rps = [blue_rps EXCEPT
                                    !.total = @ + WinRp(predicted_winner, "blue"),
                                    !.win = WinCredit(predicted_winner, "blue")]]

\* the predicted branch without its `is_predicted = True`
LbTeamsNoFlag(tms, st) ==
    IF st.branch = "actual"
    THEN Credit(Credit(tms, st.red_teams, st.red_rp_total, st.red_win, FALSE),
                st.blue_teams, st.blue_rp_total, st.blue_win, FALSE)
    ELSE IF st.branch = "predicted"
    THEN Credit(Credit(tms, st.red_teams, st.red_rps.total, st.red_rps.win, FALSE),
                st.blue_teams, st.blue_rps.total, st.blue_rps.win, FALSE)
    ELSE tms

\* the dict `teams` after the iteration whose locals are st
LbTeams(tms, st) ==
    IF st.branch = "actual"
    THEN Credit(Credit(tms, st.red_teams, st.red_rp_total, st.red_win, FALSE),
                st.blue_teams, st.blue_rp_total, st.blue_win, FALSE)
    ELSE IF st.branch = "predicted"
    THEN Credit(Credit(tms, st.red_teams, st.red_rps.total, st.red_rps.win, TRUE),
                st.blue_teams, st.blue_rps.total, st.blue_rps.win, TRUE)
    ELSE tms

----------------------------------------------------------------------------
(* calculate_leaderboard: after the loop *)

\* sum(1 for match in matches if match.get('scores'))
TotalPlayedMatches(ms) == Cardinality({k \in DOMAIN ms : ms[k].scores.given})

EventStatus(total_played_matches, total_upcoming_matches) ==
    IF total_upcoming_matches > 0
    THEN IF total_played_matches > 0 THEN "in_progress" ELSE "not_started"
    ELSE "completed"

\* sorted(): insertion into an ascending list, after the elements equal to x
RECURSIVE InsertAsc(_, _)
InsertAsc(x, s) ==
    IF s = <<>> THEN <<x>>
    ELSE IF x < Head(s) THEN <<x>> \o s
    ELSE <<Head(s)>> \o InsertAsc(x, Tail(s))

RECURSIVE Sorted(_)
Sorted(s) ==
    IF s = <<>> THEN <<>>
    ELSE InsertAsc(s[Len(s)], Sorted(SubSeq(s, 1, Len(s) - 1)))

\* the lower-middle element for an even count
MedianRpLower(scores) ==
    LET sorted_scores == Sorted(scores)
    IN  IF sorted_scores = <<>> THEN 0
        ELSE sorted_scores[((Len(sorted_scores) - 1) \div 2) + 1]

\* sorted_scores[len(sorted_scores) // 2] if sorted_scores else 0
MedianRp(scores) ==
    LET sorted_scores == Sorted(scores)
    IN  IF sorted_scores = <<>> THEN 0
        ELSE sorted_scores[(Len(sorted_scores) \div 2) + 1]

\* the dict appended for a team with total_matches > 0
LeaderboardEntry(team_data) ==
    [team_number     |-> team_data.team_number,
     avg_rp          |-> RoundHalfEven(team_data.total_rp * 100, team_data.total_matches),
     total_rp        |-> team_data.total_rp,
     total_matches   |-> team_data.total_matches,
     win_rate        |-> RoundHalfEven(team_data.total_wins * 1000,
                                       2 * team_data.total_matches),
     median_rp       |-> MedianRp(team_data.scores),
     has_predictions |-> team_data.is_predicted]

\* the key without its tie-break on avg_rp
KeyLessTotalOnly(a, b) == a.total_rp < b.total_rp

\* key(a) < key(b) for key = lambda x: (x['total_rp'], x['avg_rp'])
KeyLess(a, b) ==
    \/ a.total_rp < b.total_rp
    \/ a.total_rp = b.total_rp /\ a.avg_rp < b.avg_rp

\* list.sort(key=..., reverse=True): stable, equal keys keep their order
RECURSIVE InsertDesc(_, _)
InsertDesc(x, s) ==
    IF s = <<>> THEN <<x>>
    ELSE IF KeyLess(Head(s), x) THEN <<x>> \o s
    ELSE <<Head(s)>> \o InsertDesc(x, Tail(s))

RECURSIVE LeaderboardSort(_)
LeaderboardSort(s) ==
    IF s = <<>> THEN <<>>
    ELSE InsertDesc(s[Len(s)], LeaderboardSort(SubSeq(s, 1, Len(s) - 1)))

\* the orders in which teams.items() can run: `teams` is filled from
\* opr_data.keys(), itself filled by iterating a set of str
RECURSIVE DictOrders(_)
DictOrders(S) ==
    IF S = {} THEN {<<>>}
    ELSE UNION {{<<x>> \o o : o \in DictOrders(S \ {x})} : x \in S}

CalculateLeaderboardResult(ms, tms, order) ==
    LET total_played_matches == TotalPlayedMatches(ms)
        total_upcoming_matches == Len(ms) - total_played_matches
        with_matches == SelectSeq(order, LAMBDA t : tms[t].total_matches > 0)
        leaderboard == [k \in 1..Len(with_matches) |-> LeaderboardEntry(tms[with_matches[k]])]
    IN  [leaderboard      |-> LeaderboardSort(leaderboard),
         event_status     |-> EventStatus(total_played_matches, total_upcoming_matches),
         played_matches   |-> total_played_matches,
         upcoming_matches |-> total_upcoming_matches,
         total_matches    |-> Len(ms)]

NoLeaderboardResult ==
    [leaderboard |-> <<>>, event_status |-> "none", played_matches |-> 0,
     upcoming_matches |-> 0, total_matches |-> 0]

----------------------------------------------------------------------------
(* get_event_predictions: one iteration of `for match in matches` *)

\* confidence = (abs(red_opr - blue_opr) / total_opr) * 100 if total_opr > 0 else 0
Confidence(red_opr, blue_opr) ==
    LET total_opr == red_opr + blue_opr
    IN  IF total_opr > 0
        THEN [num |-> Abs(red_opr - blue_opr) * 100, den |-> total_opr]
        ELSE [num |-> 0, den |-> 1]

\* the clamp without its upper end
WinnerConfidenceNoCap(confidence) ==
    Max2(50, RoundHalfEven(confidence.num + 50 * confidence.den, confidence.den))

\* min(100, max(50, round(confidence + 50)))
WinnerConfidence(confidence) ==
    Min2(100, Max2(50, RoundHalfEven(confidence.num + 50 * confidence.den, confidence.den)))

\* equal sums going to red
ScheduledPredictedWinnerGe(red_opr, blue_opr) ==
    IF red_opr >= blue_opr THEN "red" ELSE "blue"

\* predicted_winner of an upcoming match
ScheduledPredictedWinner(red_opr, blue_opr) ==
    IF red_opr > blue_opr THEN "red" ELSE "blue"

\* predicted_winner of a played match ("what the prediction would have been")
PlayedPredictedWinner(red_opr, blue_opr) ==
    IF red_opr > blue_opr THEN "red" ELSE "blue"

NoPredictedRps ==
    [movement_rp |-> FALSE, goal_rp |-> FALSE, pattern_rp |-> FALSE,
     movement_avg |-> 0, goal_avg |-> 0, pattern_avg |-> 0,
     movement_prob |-> 0, goal_prob |-> 0, pattern_prob |-> 0]

\* the nested function predict_alliance_rps; x_avg = (a + b) / 2
PredictAllianceRps(rp, tms) ==
    IF Len(tms) # 2 THEN NoPredictedRps
    ELSE LET team1_rp == RpGet(rp, tms[1])
             team2_rp == RpGet(rp, tms[2])
             movement2 == team1_rp.movement_avg + team2_rp.movement_avg
             goal2 == team1_rp.goal_avg + team2_rp.goal_avg
             pattern2 == team1_rp.pattern_avg + team2_rp.pattern_avg
         IN  [movement_rp   |-> movement2 > 2 * 50,
              movement_avg  |-> RoundHalfEven(movement2, 2),
              goal_rp       |-> goal2 > 2 * 50,
              goal_avg      |-> RoundHalfEven(goal2, 2),
              pattern_rp    |-> pattern2 > 2 * 50,
              pattern_avg   |-> RoundHalfEven(pattern2, 2),
              movement_prob |-> RoundHalfEven(movement2, 2),
              goal_prob     |-> RoundHalfEven(goal2, 2),
              pattern_prob  |-> RoundHalfEven(pattern2, 2)]

PredictedBonusRp(rps) == B2N(rps.movement_rp) + B2N(rps.goal_rp) + B2N(rps.pattern_rp)

\* the dict appended to past_matches
PastMatch(match, opr) ==
    LET red_teams == AllianceTeams(match, "Red")
        blue_teams == AllianceTeams(match, "Blue")
        red_score == match.scores.red.totalPoints
        blue_score == match.scores.blue.totalPoints
        actual_winner == ActualWinner(red_score, blue_score)
        red_opr == OprSum(opr, red_teams)
        blue_opr == OprSum(opr, blue_teams)
        predicted_winner == PlayedPredictedWinner(red_opr, blue_opr)
    IN  [match_number       |-> match.id,
         red_teams          |-> red_teams,
         blue_teams         |-> blue_teams,
         red_score          |-> red_score,
         blue_score         |-> blue_score,
         actual_winner      |-> actual_winner,
         predicted_winner   |-> predicted_winner,
         red_opr_sum        |-> red_opr,
         blue_opr_sum       |-> blue_opr,
         correct_prediction |-> actual_winner # "tie" /\ actual_winner = predicted_winner,
         red_rp             |-> BonusRp(match.scores.red) + WinRp(actual_winner, "red"),
         blue_rp            |-> BonusRp(match.scores.blue) + WinRp(actual_winner, "blue"),
         red_movement_rp    |-> match.scores.red.movementBonus,
         blue_movement_rp   |-> match.scores.blue.movementBonus,
         red_goal_rp        |-> match.scores.red.goalBonus,
         blue_goal_rp       |-> match.scores.blue.goalBonus,
         red_pattern_rp     |-> match.scores.red.patternBonus,
         blue_pattern_rp    |-> match.scores.blue.patternBonus]

\* the dict appended to predictions
Prediction(match, opr, rp) ==
    LET red_teams == AllianceTeams(match, "Red")
        blue_teams == AllianceTeams(match, "Blue")
        red_opr == OprSum(opr, red_teams)
        blue_opr == OprSum(opr, blue_teams)
        confidence == Confidence(red_opr, blue_opr)
        red_rps == PredictAllianceRps(rp, red_teams)
        blue_rps == PredictAllianceRps(rp, blue_teams)
        predicted_winner == ScheduledPredictedWinner(red_opr, blue_opr)
    IN  [match_number          |-> match.id,
         red_teams             |-> red_teams,
         blue_teams            |-> blue_teams,
         red_opr_sum           |-> red_opr,
         blue_opr_sum          |-> blue_opr,
         predicted_winner      |-> predicted_winner,
         confidence_percentage |-> RoundHalfEven(confidence.num * 10, confidence.den),
         winner_confidence     |-> WinnerConfidence(confidence),
         red_rp_predictions    |-> red_rps,
         blue_rp_predictions   |-> blue_rps,
         red_total_rp          |-> PredictedBonusRp(red_rps) + WinRp(predicted_winner, "red"),
         blue_total_rp         |-> PredictedBonusRp(blue_rps) + WinRp(predicted_winner, "blue")]

NoPredStep ==
    [branch |-> "none", red_opr |-> 0, blue_opr |-> 0, confidence |-> [num |-> 0, den |-> 1]]

\* the locals one iteration leaves behind, by the branch it takes
PredLocals(match, opr) ==
    LET red_opr == OprSum(opr, AllianceTeams(match, "Red"))
        blue_opr == OprSum(opr, AllianceTeams(match, "Blue"))
    IN  IF IsNonQual(match) THEN [NoPredStep EXCEPT !.branch = "nonqual"]
        ELSE IF IsPlayed(match)
        THEN [NoPredStep EXCEPT !.branch = "played", !.red_opr = red_opr, !.blue_opr = blue_opr]
        ELSE [branch |-> "scheduled", red_opr |-> red_opr, blue_opr |-> blue_opr,
              confidence |-> Confidence(red_opr, blue_opr)]

\* prediction_accuracy, in tenths of a percent
PredictionAccuracy(past) ==
    LET correct_predictions == Cardinality({k \in DOMAIN past : past[k].correct_prediction})
        total_predictable == Cardinality({k \in DOMAIN past : past[k].actual_winner # "tie"})
    IN  IF total_predictable > 0
        THEN RoundHalfEven(correct_predictions * 1000, total_predictable)
        ELSE 0

----------------------------------------------------------------------------
(* The upstream answers the handler is run on *)

AllTeams == {1, 2, 3, 4, 5}

\* alliance line-ups: two well-formed ones, and one with a single red team
LineUp1 == <<TeamEntry(1, "Red"), TeamEntry(2, "Red"), TeamEntry(3, "Blue"), TeamEntry(4, "Blue")>>

LineUp2 == <<TeamEntry(5, "Red"), TeamEntry(3, "Red"), TeamEntry(1, "Blue"), TeamEntry(4, "Blue")>>

LineUpShort == <<TeamEntry(1, "Red"), TeamEntry(3, "Blue"), TeamEntry(4, "Blue")>>

PresentScores ==
    {AllianceScore(TRUE, tp, mv, gl, pt) :
        tp \in 0..MaxScore, mv \in BOOLEAN, gl \in BOOLEAN, pt \in BOOLEAN}

\* every scores value: absent, or a dict in which each side is present or not
AllScores ==
    {NoScores} \cup
    {Scores(TRUE, r, b) : r \in PresentScores \cup {NoAllianceScore},
                          b \in PresentScores \cup {NoAllianceScore}}

RedWinsScores ==
    Scores(TRUE, AllianceScore(TRUE, MaxScore, TRUE, TRUE, TRUE),
                 AllianceScore(TRUE, 0, FALSE, FALSE, FALSE))

BlueWinsScores ==
    Scores(TRUE, AllianceScore(TRUE, 0, FALSE, TRUE, FALSE),
                 AllianceScore(TRUE, MaxScore, FALSE, TRUE, TRUE))

TieScores ==
    Scores(TRUE, AllianceScore(TRUE, MaxScore, TRUE, FALSE, FALSE),
                 AllianceScore(TRUE, MaxScore, FALSE, FALSE, FALSE))

RedOnlyScores ==
    Scores(TRUE, AllianceScore(TRUE, MaxScore, TRUE, FALSE, FALSE), NoAllianceScore)

FewScores == {NoScores, RedOnlyScores, RedWinsScores, BlueWinsScores, TieScores}

\* OPR values of a team and upstream bonus averages (thousandths)
OprValues == {-50, 0, 30, 50}

ProbValues == {0, 496, 500, 504, 506, 1000}

\* the three bonus averages of one team: one of them varies, the others are fixed
ProbTriples ==
    UNION {{<<p, 0, 1000>>, <<1000, p, 504>>, <<496, 1000, p>>} : p \in ProbValues}

StatsOf(o, pr) ==
    [t \in AllTeams |-> TeamStats(TRUE, o[t], TRUE, pr[t][1], pr[t][2], pr[t][3])]

FixedOpr == [t \in AllTeams |-> IF t \in {1, 2} THEN 50 ELSE IF t \in {3, 4} THEN 30 ELSE 0]

FixedProbs ==
    [t \in AllTeams |-> IF t \in {1, 5} THEN <<1000, 504, 0>>
                        ELSE IF t = 2 THEN <<506, 504, 1000>> ELSE <<496, 1000, 506>>]

\* red stronger, equal, blue stronger, no OPR at all
FewOprs ==
    {FixedOpr, [t \in AllTeams |-> 30], [t \in AllTeams |-> IF t \in {3, 4} THEN 50 ELSE -50]}

MatchLists(S) == UNION {[1..n -> S] : n \in 0..MaxMatches}

\* events of several matches: line-ups, ids and a few scores
EventMatches ==
    {Match(IntId(1), LineUp1, sc) : sc \in FewScores}
    \cup {Match(IntId(1), LineUp2, sc) : sc \in {NoScores, RedWinsScores, TieScores}}
    \cup {Match(id, LineUp1, RedWinsScores) : id \in {StrId(2), StrId(10001), IntId(10001), TextId}}
    \cup {Match(StrId(10001), LineUp1, NoScores)}
    \cup {Match(IntId(1), LineUpShort, sc) : sc \in {NoScores, RedWinsScores}}

EventInputs ==
    {[matches |-> ms, stats |-> st] :
        ms \in MatchLists(EventMatches),
        st \in {StatsOf(FixedOpr, FixedProbs), [t \in AllTeams |-> NoStats]}}

\* one match, every scores value
PlayedInputs ==
    {[matches |-> <<Match(IntId(1), LineUp1, sc)>>, stats |-> StatsOf(o, FixedProbs)] :
        sc \in AllScores, o \in FewOprs}

\* one match, every OPR of its four teams
OprInputs ==
    {[matches |-> <<Match(IntId(1), LineUp1, sc)>>,
      stats |-> StatsOf([t \in AllTeams |-> IF t = 5 THEN 0 ELSE o[t]], FixedProbs)] :
        sc \in FewScores, o \in [{1, 2, 3, 4} -> OprValues]}

\* one scheduled match, the bonus averages of one alliance's two teams
ProbInputs ==
    {[matches |-> <<Match(IntId(1), LineUp1, NoScores)>>,
      stats |-> StatsOf(o, [t \in AllTeams |->
                    IF t = side[1] THEN a ELSE IF t = side[2] THEN b ELSE FixedProbs[t]])] :
        a \in ProbTriples, b \in ProbTriples, side \in {<<1, 2>>, <<3, 4>>}, o \in FewOprs}

Inputs == EventInputs \cup PlayedInputs \cup OprInputs \cup ProbInputs

\* the event of the request, and the codes of a team's season events in list order
EventCode == "CUR"

SeasonCodes == <<"EVA", "CUR", "EVB", "EVC">>

\* the stats of one season event: none, or an OPR with the fixed bonus averages
SeasonStats ==
    {NoStats} \cup {TeamStats(TRUE, o, TRUE, 1000, 504, 0) : o \in OprValues}

\* the season event lists of a team, up to MaxEvents events
SeasonLists ==
    UNION {{[k \in 1..n |-> SeasonEvent(SeasonCodes[k], f[k])] : f \in [1..n -> SeasonStats]} :
              n \in 0..MaxEvents}

SeasonMatchLists ==
    {<<>>, <<Match(IntId(1), LineUp1, NoScores)>>, <<Match(IntId(1), LineUp1, RedWinsScores)>>}

\* the season of team 1 varies; the other teams attended the event only
SeasonInputs ==
    {[matches |-> ms,
      team_events |-> [t \in AllTeams |->
          IF t = 1 THEN l
          ELSE <<SeasonEvent(EventCode, StatsOf(FixedOpr, FixedProbs)[t])>>]] :
        ms \in SeasonMatchLists, l \in SeasonLists}

----------------------------------------------------------------------------
(* The handler get_event_predictions *)

NoResponse == [code |-> 0, prediction_accuracy |-> 0, scheduled_matches |-> 0]

Init ==
    /\ \E inp \in Inputs :
          /\ matches = inp.matches
          /\ stats = inp.stats
          /\ team_events = [t \in AllTeams |-> <<SeasonEvent(EventCode, inp.stats[t])>>]
    /\ use_highest_season_opr = FALSE
    /\ highest_opr_info = <<>>
    /\ pc = "start"
    /\ opr_data = <<>>
    /\ rp_data = <<>>
    /\ teams = <<>>
    /\ i = 1
    /\ lbStep = NoLbStep
    /\ leaderboard_result = NoLeaderboardResult
    /\ predictions = <<>>
    /\ past_matches = <<>>
    /\ predStep = NoPredStep
    /\ response = NoResponse

\* if not matches: return 404
NotFound ==
    /\ pc = "start"
    /\ matches = <<>>
    /\ pc' = "done"
    /\ response' = [NoResponse EXCEPT !.code = 404]
    /\ UNCHANGED <<use_highest_season_opr, team_events, highest_opr_info,
                   matches, stats, opr_data, rp_data, teams, i, lbStep,
                   leaderboard_result, predictions, past_matches, predStep>>

\* calculate_opr, calculate_rp_simple, and the initialisation of `teams`
GetData ==
    /\ pc = "start"
    /\ matches # <<>>
    /\ opr_data' = IF use_highest_season_opr
                    THEN CalculateOprHighest(matches, team_events)
                    ELSE CalculateOpr(matches, stats)
    /\ highest_opr_info' = IF use_highest_season_opr
                            THEN HighestOprInfo(matches, team_events)
                            ELSE <<>>
    /\ rp_data' = CalculateRpSimple(matches, stats)
    /\ teams' = [t \in DOMAIN opr_data' |-> InitTeam(t)]
    /\ i' = 1
    /\ pc' = "leaderboard"
    /\ UNCHANGED <<use_highest_season_opr, team_events,
                   matches, stats, lbStep, leaderboard_result, predictions,
                   past_matches, predStep, response>>

\* calculate_leaderboard: the body of `for match in matches`
LeaderboardMatch ==
    /\ pc = "leaderboard"
    /\ i <= Len(matches)
    /\ lbStep' = LbLocals(matches[i], opr_data, rp_data)
    /\ teams' = LbTeams(teams, lbStep')
    /\ i' = i + 1
    /\ UNCHANGED <<use_highest_season_opr, team_events, highest_opr_info,
                   matches, stats, pc, opr_data, rp_data, leaderboard_result,
                   predictions, past_matches, predStep, response>>

\* calculate_leaderboard: the code after the loop, up to the return
LeaderboardReturn ==
    /\ pc = "leaderboard"
    /\ i > Len(matches)
    /\ \E order \in DictOrders(DOMAIN teams) :
          leaderboard_result' = CalculateLeaderboardResult(matches, teams, order)
    /\ i' = 1
    /\ pc' = "predictions"
    /\ UNCHANGED <<use_highest_season_opr, team_events, highest_opr_info,
                   matches, stats, opr_data, rp_data, teams, lbStep,
                   predictions, past_matches, predStep, response>>

\* get_event_predictions: the body of `for match in matches`
PredictionsMatch ==
    /\ pc = "predictions"
    /\ i <= Len(matches)
    /\ predStep' = PredLocals(matches[i], opr_data)
    /\ predictions' = IF predStep'.branch = "scheduled"
                      THEN Append(predictions, Prediction(matches[i], opr_data, rp_data))
                      ELSE predictions
    /\ past_matches' = IF predStep'.branch = "played"
                       THEN Append(past_matches, PastMatch(matches[i], opr_data))
                       ELSE past_matches
    /\ i' = i + 1
    /\ UNCHANGED <<use_highest_season_opr, team_events, highest_opr_info,
                   matches, stats, pc, opr_data, rp_data, teams, lbStep,
                   leaderboard_result, response>>

\* get_event_predictions: the accuracy and the JSON answer
Respond ==
    /\ pc = "predictions"
    /\ i > Len(matches)
    /\ response' = [code |-> 200,
                    prediction_accuracy |-> PredictionAccuracy(past_matches),
                    scheduled_matches |-> Len(predictions)]
    /\ pc' = "done"
    /\ UNCHANGED <<use_highest_season_opr, team_events, highest_opr_info,
                   matches, stats, opr_data, rp_data, teams, i, lbStep,
                   leaderboard_result, predictions, past_matches, predStep>>

Next ==
    \/ NotFound
    \/ GetData
    \/ LeaderboardMatch
    \/ LeaderboardReturn
    \/ PredictionsMatch
    \/ Respond

Spec == Init /\ [][Next]_vars

\* the handler called with opr_source=highest
InitSeason ==
    /\ \E inp \in SeasonInputs :
          /\ matches = inp.matches
          /\ team_events = inp.team_events
          /\ stats = [t \in AllTeams |-> GetTeamEventStats(inp.team_events[t], EventCode)]
    /\ use_highest_season_opr = TRUE
    /\ highest_opr_info = <<>>
    /\ pc = "start"
    /\ opr_data = <<>>
    /\ rp_data = <<>>
    /\ teams = <<>>
    /\ i = 1
    /\ lbStep = NoLbStep
    /\ leaderboard_result = NoLeaderboardResult
    /\ predictions = <<>>
    /\ past_matches = <<>>
    /\ predStep = NoPredStep
    /\ response = NoResponse

SeasonSpec == InitSeason /\ [][Next]_vars

----------------------------------------------------------------------------
(* Vocabulary of the claims, stated on the upstream data *)

\* the match the last iteration of the leaderboard loop has processed
LbDone == pc = "leaderboard" /\ i > 1

LbMatch == matches[i - 1]

\* the match the last iteration of the predictions loop has processed
PredDone == pc = "predictions" /\ i > 1

PredMatch == matches[i - 1]

\* the members of one alliance ("Red" / "Blue") of a match
Members(m, a) == {m.teams[k].teamNumber : k \in {n \in DOMAIN m.teams : m.teams[n].alliance = a}}

\* both alliances have exactly two teams
WellFormed(m) ==
    /\ Cardinality({n \in DOMAIN m.teams : m.teams[n].alliance = "Red"}) = 2
    /\ Cardinality({n \in DOMAIN m.teams : m.teams[n].alliance = "Blue"}) = 2

\* scores are present for both alliances
BothScoresPresent(m) == m.scores.given /\ m.scores.red.present /\ m.scores.blue.present

\* a qualification match: its id does not denote a match number above 10000
QualNumber(m) == ~(m.id.numeric /\ m.id.num > 10000)

\* the sum of the OPRs of an alliance's members, as calculate_leaderboard is given them
MemberOprSum(m, a) ==
    SumSeq([k \in 1..Len(m.teams) |->
              IF m.teams[k].alliance = a THEN opr_data[m.teams[k].teamNumber] ELSE 0])

\* the number of bonus flags set in one alliance's score
FlagsSet(sc) ==
    Cardinality({f \in {"movement", "goal", "pattern"} :
        \/ f = "movement" /\ sc.movementBonus
        \/ f = "goal" /\ sc.goalBonus
        \/ f = "pattern" /\ sc.patternBonus})

----------------------------------------------------------------------------
(* C1 *)

\* the win ranking points inside a predicted alliance total
PredictedWinPoints(rps) == rps.total - (rps.movement + rps.goal + rps.pattern)

\* C1: for every scheduled well-formed match, the alliance with the strictly
\* greater sum of member OPRs alone receives the 3 win ranking points and win
\* credit 1, the other alliance 0 and 0, whichever side is the stronger.
C1_StrongerAllianceWins ==
    (LbDone /\ WellFormed(LbMatch) /\ ~BothScoresPresent(LbMatch) /\ QualNumber(LbMatch)) =>
        LET red == MemberOprSum(LbMatch, "Red")
            blue == MemberOprSum(LbMatch, "Blue")
        IN  /\ red > blue =>
                /\ PredictedWinPoints(lbStep.red_rps) = 3 /\ lbStep.red_rps.win = 2
                /\ PredictedWinPoints(lbStep.blue_rps) = 0 /\ lbStep.blue_rps.win = 0
            /\ blue > red =>
                /\ PredictedWinPoints(lbStep.blue_rps) = 3 /\ lbStep.blue_rps.win = 2
                /\ PredictedWinPoints(lbStep.red_rps) = 0 /\ lbStep.red_rps.win = 0

----------------------------------------------------------------------------
(* C2 *)

Returned == leaderboard_result.event_status # "none"

NumPlayed == Cardinality({k \in DOMAIN matches : BothScoresPresent(matches[k])})

NumScheduled == Cardinality({k \in DOMAIN matches : ~BothScoresPresent(matches[k])})

\* C2: the event status is "completed" if no scheduled match remains,
\* "not_started" if no match has been played yet, "in_progress" otherwise.
C2_EventStatus ==
    Returned =>
        leaderboard_result.event_status =
            IF NumScheduled = 0 THEN "completed"
            ELSE IF NumPlayed = 0 THEN "not_started" ELSE "in_progress"

----------------------------------------------------------------------------
(* C3 *)

\* ranking points and win credit (in half wins) of one side of a played match
ActualRpOf(own, other) ==
    FlagsSet(own) + (IF own.totalPoints > other.totalPoints THEN 3
                     ELSE IF own.totalPoints = other.totalPoints THEN 1 ELSE 0)

ActualWinOf(own, other) ==
    IF own.totalPoints > other.totalPoints THEN 2
    ELSE IF own.totalPoints = other.totalPoints THEN 1 ELSE 0

\* team t's record moves by one actual match worth rp ranking points and win half wins
CreditedActual(t, rp, win) ==
    /\ teams'[t].total_rp = teams[t].total_rp + rp
    /\ teams'[t].total_wins = teams[t].total_wins + win
    /\ teams'[t].total_matches = teams[t].total_matches + 1
    /\ teams'[t].scores = Append(teams[t].scores, rp)
    /\ teams'[t].is_predicted = teams[t].is_predicted

\* C3: processing a played well-formed (qualification) match credits every
\* member of an alliance with 1 ranking point per bonus flag set plus 3 for the
\* strictly higher final score or 1 on equal scores, and with win credit 1 / 0.5 / 0.
C3_ActualCredit ==
    [][(/\ pc = "leaderboard" /\ i <= Len(matches)
        /\ WellFormed(matches[i]) /\ BothScoresPresent(matches[i]) /\ QualNumber(matches[i]))
       => LET m == matches[i]
          IN  /\ \A t \in Members(m, "Red") :
                    CreditedActual(t, ActualRpOf(m.scores.red, m.scores.blue),
                                      ActualWinOf(m.scores.red, m.scores.blue))
              /\ \A t \in Members(m, "Blue") :
                    CreditedActual(t, ActualRpOf(m.scores.blue, m.scores.red),
                                      ActualWinOf(m.scores.blue, m.scores.red))]_vars

\* a tie with a bonus flag set on one side has been credited
C3_Witness ==
    /\ LbDone /\ WellFormed(LbMatch) /\ BothScoresPresent(LbMatch)
    /\ LbMatch.scores.red.totalPoints = LbMatch.scores.blue.totalPoints
    /\ FlagsSet(LbMatch.scores.red) = 2 /\ FlagsSet(LbMatch.scores.blue) = 0
    /\ \A t \in Members(LbMatch, "Red") : teams[t].total_rp = 3 /\ teams[t].total_wins = 1

----------------------------------------------------------------------------
(* C4 *)

\* C4: in the returned list, an earlier entry has a total of ranking points
\* greater than or equal to the next one's and, on equal totals, an average
\* (the entry's avg_rp) greater than or equal to the next one's.
C4_LeaderboardOrder ==
    \A k \in 1..(Len(leaderboard_result.leaderboard) - 1) :
        LET a == leaderboard_result.leaderboard[k]
            b == leaderboard_result.leaderboard[k + 1]
        IN  /\ a.total_rp >= b.total_rp
            /\ a.total_rp = b.total_rp => a.avg_rp >= b.avg_rp

\* two adjacent entries hold the same total and different averages
C4_Witness ==
    \E k \in 1..(Len(leaderboard_result.leaderboard) - 1) :
        /\ leaderboard_result.leaderboard[k].total_rp =
           leaderboard_result.leaderboard[k + 1].total_rp
        /\ leaderboard_result.leaderboard[k].avg_rp >
           leaderboard_result.leaderboard[k + 1].avg_rp

----------------------------------------------------------------------------
(* C5 *)

\* C5: a match is played exactly when both alliances' scores are present, and
\* the returned played / scheduled counts follow the same rule as the
\* per-match choice between actual and predicted ranking points.
C5_PlayedCounts ==
    /\ (LbDone /\ WellFormed(LbMatch) /\ QualNumber(LbMatch)) =>
          /\ lbStep.branch = "actual" <=> BothScoresPresent(LbMatch)
          /\ lbStep.branch = "predicted" <=> ~BothScoresPresent(LbMatch)
    /\ Returned =>
          /\ leaderboard_result.played_matches = NumPlayed
          /\ leaderboard_result.upcoming_matches = NumScheduled

----------------------------------------------------------------------------
(* C6 *)

\* a team's upstream probability (thousandths) for a bonus objective; 0 without statistics
UpstreamProb(t, f) ==
    IF ~stats[t].has_avg THEN 0
    ELSE IF f = "movement" THEN stats[t].movementRp
    ELSE IF f = "goal" THEN stats[t].goalRp ELSE stats[t].patternRp

\* the sum of the two members' upstream probabilities
ProbSum(m, a, f) ==
    SumSeq([k \in 1..Len(m.teams) |->
              IF m.teams[k].alliance = a THEN UpstreamProb(m.teams[k].teamNumber, f) ELSE 0])

PredictedFlag(rps, f) ==
    IF f = "movement" THEN rps.movement ELSE IF f = "goal" THEN rps.goal ELSE rps.pattern

\* C6: for a scheduled match and each alliance, a bonus objective is predicted
\* achieved exactly when the average of the two members' upstream
\* probabilities is strictly greater than 0.5.
C6_BonusThreshold ==
    (LbDone /\ WellFormed(LbMatch) /\ ~BothScoresPresent(LbMatch) /\ QualNumber(LbMatch)) =>
        \A f \in {"movement", "goal", "pattern"} :
            /\ PredictedFlag(lbStep.red_rps, f) = 1 <=> ProbSum(LbMatch, "Red", f) > 2 * 500
            /\ PredictedFlag(lbStep.blue_rps, f) = 1 <=> ProbSum(LbMatch, "Blue", f) > 2 * 500

----------------------------------------------------------------------------
(* C7 *)

LastPrediction == predictions[Len(predictions)]

ScheduledDone == PredDone /\ predStep.branch = "scheduled"

\* w is x / d rounded to a nearest integer and clamped into [50, 100]
RoundedAndClamped(w, x, d) ==
    /\ w \in 50..100
    /\ w > 50 => 2 * (w * d - x) <= d
    /\ w < 100 => 2 * (x - w * d) <= d

\* C7 as stated: the confidence is |red - blue| / (red + blue) as a percentage
\* whenever the sum is not 0 and 0 when it is 0; the winner confidence is
\* confidence + 50 clamped into [50, 100]; red 100 and blue 60 give red, 25, 75.
C7_ConfidenceAsStated ==
    ScheduledDone =>
        LET red == predStep.red_opr
            blue == predStep.blue_opr
            c == predStep.confidence
            x == c.num + 50 * c.den
        IN  /\ red + blue # 0 => c.num * (red + blue) = Abs(red - blue) * 100 * c.den
            /\ red + blue = 0 => c.num = 0
            /\ LastPrediction.winner_confidence * c.den =
                   Min2(100 * c.den, Max2(50 * c.den, x))
            /\ LastPrediction.winner_confidence \in 50..100
            /\ (red = 100 /\ blue = 60) =>
                   /\ LastPrediction.predicted_winner = "red"
                   /\ c.num = 25 * c.den
                   /\ LastPrediction.winner_confidence = 75

\* C7, amended: the confidence is |red - blue| / (red + blue) as a percentage
\* whenever the sum is greater than 0 and 0 when the sum is 0 or negative; the
\* winner confidence is confidence + 50 rounded to an integer and clamped into
\* [50, 100]; red 100 and blue 60 give red, 25, 75.
C7_Confidence ==
    ScheduledDone =>
        LET red == predStep.red_opr
            blue == predStep.blue_opr
            c == predStep.confidence
        IN  /\ red = MemberOprSum(PredMatch, "Red") /\ blue = MemberOprSum(PredMatch, "Blue")
            /\ c.den > 0
            /\ red + blue > 0 => c.num * (red + blue) = Abs(red - blue) * 100 * c.den
            /\ red + blue <= 0 => c.num = 0
            /\ RoundedAndClamped(LastPrediction.winner_confidence,
                                 c.num + 50 * c.den, c.den)
            /\ (red = 100 /\ blue = 60) =>
                   /\ LastPrediction.predicted_winner = "red"
                   /\ c.num = 25 * c.den
                   /\ LastPrediction.winner_confidence = 75

\* the prediction for red 100 against blue 60 has been made
C7_Witness ==
    /\ ScheduledDone
    /\ MemberOprSum(PredMatch, "Red") = 100 /\ MemberOprSum(PredMatch, "Blue") = 60
    /\ LastPrediction.winner_confidence = 75

\* a prediction for a negative sum of OPRs has been made
C7_WitnessNegative ==
    /\ ScheduledDone
    /\ MemberOprSum(PredMatch, "Red") + MemberOprSum(PredMatch, "Blue") < 0
    /\ MemberOprSum(PredMatch, "Red") # MemberOprSum(PredMatch, "Blue")
    /\ predStep.confidence.num = 0

----------------------------------------------------------------------------
(* C8 *)

\* C8 as stated: the predicted winner of a scheduled match is red or blue,
\* never a tie, and it is red when the two OPR sums are exactly equal.
C8_EqualSumsRed ==
    ScheduledDone =>
        /\ LastPrediction.predicted_winner \in {"red", "blue"}
        /\ MemberOprSum(PredMatch, "Red") = MemberOprSum(PredMatch, "Blue") =>
               LastPrediction.predicted_winner = "red"

\* C8, amended: the predicted winner of a scheduled match is red or blue,
\* never a tie, and it is the second alliance (blue) when the two OPR sums
\* are exactly equal.
C8_EqualSumsBlue ==
    ScheduledDone =>
        /\ LastPrediction.predicted_winner \in {"red", "blue"}
        /\ MemberOprSum(PredMatch, "Red") = MemberOprSum(PredMatch, "Blue") =>
               LastPrediction.predicted_winner = "blue"

\* a prediction for two equal, non-zero OPR sums has been made
C8_Witness ==
    /\ ScheduledDone
    /\ MemberOprSum(PredMatch, "Red") = MemberOprSum(PredMatch, "Blue")
    /\ MemberOprSum(PredMatch, "Red") # 0
    /\ LastPrediction.predicted_winner = "blue"

----------------------------------------------------------------------------
(* C9 *)

LastPastMatch == past_matches[Len(past_matches)]

\* the OPR-sum rule: strictly greater wins, exact equality is a tie
RuleWinner(red, blue) == IF red > blue THEN "red" ELSE IF blue > red THEN "blue" ELSE "tie"

\* the winner by final scores
ScoreWinner(m) ==
    IF m.scores.red.totalPoints > m.scores.blue.totalPoints THEN "red"
    ELSE IF m.scores.blue.totalPoints > m.scores.red.totalPoints THEN "blue" ELSE "tie"

\* C9: for a played match the correctness flag is true exactly when the actual
\* winner is red or blue and equals the winner the OPR-sum rule predicts
\* (a tie on equal sums); it is false on an actual tie and on equal OPR sums.
C9_CorrectPrediction ==
    (PredDone /\ predStep.branch = "played") =>
        LET red == MemberOprSum(PredMatch, "Red")
            blue == MemberOprSum(PredMatch, "Blue")
        IN  /\ LastPastMatch.correct_prediction <=>
                  /\ ScoreWinner(PredMatch) \in {"red", "blue"}
                  /\ ScoreWinner(PredMatch) = RuleWinner(red, blue)
            /\ ScoreWinner(PredMatch) = "tie" => ~LastPastMatch.correct_prediction
            /\ red = blue => ~LastPastMatch.correct_prediction

----------------------------------------------------------------------------
(* C10 *)

\* v is the element at zero-based index k of the values of s in ascending order
IsAtSortedIndex(v, s, k) ==
    /\ \E j \in DOMAIN s : s[j] = v
    /\ Cardinality({j \in DOMAIN s : s[j] < v}) <= k
    /\ Cardinality({j \in DOMAIN s : s[j] <= v}) > k

\* C10: the median ranking points of every leaderboard entry is the element at
\* index count // 2 of the team's per-match values in ascending order, count
\* being the number of contributing matches.
C10_Median ==
    \A k \in DOMAIN leaderboard_result.leaderboard :
        LET e == leaderboard_result.leaderboard[k]
            values == teams[e.team_number].scores
        IN  /\ Len(values) = e.total_matches
            /\ IsAtSortedIndex(e.median_rp, values, e.total_matches \div 2)

\* an entry over two matches of different value reports the higher one
C10_Witness ==
    \E k \in DOMAIN leaderboard_result.leaderboard :
        LET e == leaderboard_result.leaderboard[k]
            values == teams[e.team_number].scores
        IN  /\ e.total_matches = 2
            /\ values[1] # values[2]
            /\ e.median_rp = Max2(values[1], values[2])

----------------------------------------------------------------------------
(* C11 *)

\* C11: a malformed match (an alliance without exactly two teams), played or
\* scheduled, leaves every team's record in calculate_leaderboard unchanged,
\* and get_event_predictions still lists it (a qualification match number):
\* among the predictions when scheduled, among the past matches when played.
C11_MalformedSkipped ==
    [][/\ (pc = "leaderboard" /\ i <= Len(matches) /\ ~WellFormed(matches[i]))
            => teams' = teams
       /\ (pc = "predictions" /\ i <= Len(matches) /\ ~WellFormed(matches[i])
             /\ QualNumber(matches[i]))
            => IF BothScoresPresent(matches[i])
               THEN /\ Len(past_matches') = Len(past_matches) + 1
                    /\ past_matches'[Len(past_matches')].red_teams
                          = AllianceTeams(matches[i], "Red")
                    /\ past_matches'[Len(past_matches')].match_number = matches[i].id
                    /\ predictions' = predictions
               ELSE /\ Len(predictions') = Len(predictions) + 1
                    /\ predictions'[Len(predictions')].red_teams
                          = AllianceTeams(matches[i], "Red")
                    /\ predictions'[Len(predictions')].match_number = matches[i].id
                    /\ past_matches' = past_matches]_vars

\* a played malformed match has gone through both loops: no team has a match,
\* and the match is among the past matches
C11_Witness ==
    /\ PredDone
    /\ ~WellFormed(PredMatch) /\ BothScoresPresent(PredMatch)
    /\ \A t \in DOMAIN teams : teams[t].total_matches = 0
    /\ Len(past_matches) = 1
    /\ Len(LastPastMatch.red_teams) = 1

----------------------------------------------------------------------------
(* C12 *)

\* calculate_opr has returned in the highest-season mode
SeasonComputed == use_highest_season_opr /\ pc \in {"leaderboard", "predictions"}

\* the events of the team's season that report an OPR
Observed(t) == {k \in DOMAIN team_events[t] : team_events[t][k].stats.has_opr}

\* the OPR of the team's k-th season event
ObservedOpr(t, k) == team_events[t][k].stats.totalPointsNp

\* the k-th event of the team reports the maximum OPR observed in its season
IsSeasonBest(t, k) ==
    k \in Observed(t) /\ \A n \in Observed(t) : ObservedOpr(t, n) <= ObservedOpr(t, k)

\* C12: for every team with at least one event record the season-best is
\* the maximum OPR observed across the team's events, recorded with the code
\* of an event that produced it, whatever the sign of the values; only a team
\* with no events has the zero / 'N/A' entry.
C12_SeasonBest ==
    SeasonComputed =>
        \A t \in DOMAIN highest_opr_info :
            /\ Observed(t) # {} =>
                  \E k \in Observed(t) :
                      /\ IsSeasonBest(t, k)
                      /\ opr_data[t] = ObservedOpr(t, k)
                      /\ highest_opr_info[t].opr = ObservedOpr(t, k)
                      /\ highest_opr_info[t].event_achieved = team_events[t][k].eventCode
            /\ highest_opr_info[t].event_achieved = "N/A" <=> team_events[t] = <<>>

----------------------------------------------------------------------------
(* C13 *)

\* calculate_opr has returned
OprComputed == pc \in {"leaderboard", "predictions"} \/ (pc = "done" /\ response.code = 200)

\* the distinct teams appearing in the event's matches
DistinctTeams ==
    UNION {{matches[k].teams[n].teamNumber : n \in DOMAIN matches[k].teams} :
              k \in DOMAIN matches}

\* the alliance-result equations: two per played match
NumEquations == 2 * NumPlayed

----------------------------------------------------------------------------
(* C14 *)

\* the predictions loop has just handled the last match of the list, which is
\* also the match the locals of the leaderboard loop were left at
LastMatchPredicted ==
    /\ ScheduledDone
    /\ i - 1 = Len(matches)
    /\ WellFormed(PredMatch) /\ QualNumber(PredMatch)

\* C14: for a scheduled well-formed match and each alliance, the predicted
\* ranking points calculate_leaderboard adds to the alliance's teams equal the
\* red_total_rp / blue_total_rp get_event_predictions reports for that match.
C14_SamePredictedRp ==
    LastMatchPredicted =>
        /\ lbStep.branch = "predicted"
        /\ lbStep.red_rps.total = LastPrediction.red_total_rp
        /\ lbStep.blue_rps.total = LastPrediction.blue_total_rp

----------------------------------------------------------------------------
(* C15 *)

\* C15: a match whose id denotes a match number above 10000, as an integer or
\* as a numeric string, changes no team's totals in calculate_leaderboard and
\* enters neither the predictions nor the past matches.
C15_NonQualIgnored ==
    [][/\ (pc = "leaderboard" /\ i <= Len(matches) /\ ~QualNumber(matches[i]))
            => teams' = teams
       /\ (pc = "predictions" /\ i <= Len(matches) /\ ~QualNumber(matches[i]))
            => predictions' = predictions /\ past_matches' = past_matches]_vars

----------------------------------------------------------------------------
(* C16 *)

\* the matches the leaderboard loop has gone through so far
Processed ==
    IF pc = "start" THEN {}
    ELSE IF pc = "leaderboard" THEN 1..(i - 1) ELSE DOMAIN matches

\* match k counts for team t: the loop does not skip it and t is a member
Contributing(k, t) ==
    /\ WellFormed(matches[k])
    /\ ~(matches[k].id.isStr /\ matches[k].id.numeric /\ matches[k].id.num > 10000)
    /\ t \in Members(matches[k], "Red") \cup Members(matches[k], "Blue")

\* C16: every team record has total_matches equal to the length of its
\* per-match value list (one value per contributing match), total_rp equal to
\* the sum of the list, every value between 0 and 6, total_wins between 0 and
\* total_matches, and is_predicted true exactly when a contributing match was
\* scheduled; every leaderboard entry has total_matches >= 1.
C16_TeamRecords ==
    /\ \A t \in DOMAIN teams :
          LET rec == teams[t]
              counted == {k \in Processed : Contributing(k, t)}
          IN  /\ rec.total_matches = Len(rec.scores)
              /\ rec.total_matches = Cardinality(counted)
              /\ rec.total_rp = SumSeq(rec.scores)
              /\ \A n \in DOMAIN rec.scores : rec.scores[n] \in 0..6
              /\ rec.total_wins >= 0 /\ rec.total_wins <= 2 * rec.total_matches
              /\ rec.is_predicted <=> \E k \in counted : ~BothScoresPresent(matches[k])
    /\ \A k \in DOMAIN leaderboard_result.leaderboard :
          /\ leaderboard_result.leaderboard[k].total_matches >= 1
          /\ leaderboard_result.leaderboard[k].total_matches
                = teams[leaderboard_result.leaderboard[k].team_number].total_matches

\* a team with one played and one scheduled match and a returned leaderboard
C16_Witness ==
    /\ Returned
    /\ \E t \in DOMAIN teams :
          /\ teams[t].total_matches = 2
          /\ teams[t].is_predicted
          /\ \E k \in DOMAIN matches : Contributing(k, t) /\ BothScoresPresent(matches[k])
          /\ teams[t].total_rp > 0
    /\ Len(leaderboard_result.leaderboard) = Cardinality(DOMAIN teams)

====
